---- MODULE Spec2Model ----
(***************************************************************************)
(* The transcription response pipeline of the backend: transcribe_audio    *)
(* (strict call, truncation detection, continuation loop, light edits,     *)
(* archival, response) and the archive manager it persists through.        *)
(*                                                                         *)
(* Texts are sequences of characters; a character is a one-code-point      *)
(* string (non-ASCII code points carry a name).  A JSON value is a record  *)
(* [t, s]: t is its type and s the characters of a string value.           *)
(***************************************************************************)
EXTENDS Integers, Sequences, FiniteSets, TLC

MAX_CONTINUATION_ATTEMPTS == 1
MIN_TRUNCATION_LENGTH == 200

\* Number of successive sessions one process serves in the model.
MaxSessions == 2

\* Number of times the loop body is applied in succession in BodySpec.
MaxRounds == 2

\* Number of requests in flight on the event loop in LoopSpec.
MaxTasks == 2

(***************************************************************************)
(* Characters and texts                                                    *)
(***************************************************************************)
Whitespace == {" ", "\n", "\t"}

\* The terminal set without the characters outside ASCII.
TerminalCharsAscii == {".", "!", "?", "\"", "'", ")"}

\* terminal_chars (transcription.py:307)
TerminalChars == {".", "!", "?", "\"", "'", ")", "ELLIPSIS", "RDQUOTE", "RSQUOTE"}

Fields == <<"originalStrict", "englishStrict">>

RECURSIVE LStrip(_)
\* str.lstrip() (computed by halves)
LStrip(s) ==
  IF s = <<>> \/ s[1] \notin Whitespace THEN s
  ELSE IF Len(s) = 1 THEN <<>>
  ELSE LET head == LStrip(SubSeq(s, 1, Len(s) \div 2))
           rest == SubSeq(s, Len(s) \div 2 + 1, Len(s))
       IN  IF head # <<>> THEN head \o rest ELSE LStrip(rest)

RECURSIVE RStrip(_)
\* str.rstrip() (computed by halves)
RStrip(s) ==
  IF s = <<>> \/ s[Len(s)] \notin Whitespace THEN s
  ELSE IF Len(s) = 1 THEN <<>>
  ELSE LET rest == SubSeq(s, 1, Len(s) \div 2)
           tail == RStrip(SubSeq(s, Len(s) \div 2 + 1, Len(s)))
       IN  IF tail # <<>> THEN rest \o tail ELSE RStrip(rest)

\* str.strip(): the text without its leading and trailing whitespace.
Strip(s) == RStrip(LStrip(s))

\* str.startswith(p)
StartsWith(s, p) == Len(s) >= Len(p) /\ SubSeq(s, 1, Len(p)) = p

\* str.endswith((" ", "\n")): the tuple of suffixes the merge tests for.
EndsWithSpaceOrNewline(s) == Len(s) > 0 /\ s[Len(s)] \in {" ", "\n"}

\* The Markdown fence delimiter: three backticks.
Fence == <<"BACKTICK", "BACKTICK", "BACKTICK">>

\* segments[1] of the text split on the fence: the text between the first
\* fence and the next one
\* (or the end of the text), for a text that starts with a fence.
FirstFencedSegment(s) ==
  LET rest == SubSeq(s, Len(Fence) + 1, Len(s))
      hits == {i \in 1..Len(rest) : StartsWith(SubSeq(rest, i, Len(rest)), Fence)}
  IN  IF hits = {} THEN rest
      ELSE SubSeq(rest, 1, (CHOOSE i \in hits : \A j \in hits : i <= j) - 1)

\* The fence handling of apply_light_edit: segments[1] without a leading
\* "json" or "text" tag, stripped.  split always yields >= 2 segments for a
\* text that starts with the delimiter.
StripLightFence(result_text) ==
  IF StartsWith(result_text, Fence)
  THEN LET seg == FirstFencedSegment(result_text)
       IN  IF StartsWith(seg, <<"j", "s", "o", "n">>) \/ StartsWith(seg, <<"t", "e", "x", "t">>)
           THEN Strip(SubSeq(seg, 5, Len(seg)))
           ELSE Strip(seg)
  ELSE result_text

(***************************************************************************)
(* JSON values and documents                                               *)
(***************************************************************************)
Str(s) == [t |-> "str", s |-> s]
\* JSON null (Python None): falsy, no str methods.
Null == [t |-> "null", s |-> <<>>]
\* A non-zero JSON number: truthy, no str methods.
Num == [t |-> "num", s |-> <<>>]
\* The key is not in the mapping.
Absent == [t |-> "absent", s |-> <<>>]

Dict(o, e) == [kind |-> "dict", originalStrict |-> o, englishStrict |-> e]
\* A JSON document that is not an object (array, string, number, null).
NonDict == [kind |-> "nondict", originalStrict |-> Absent, englishStrict |-> Absent]

\* mapping.get(field, "")
GetOrEmpty(d, field) == IF d[field] = Absent THEN Str(<<>>) ELSE d[field]

\* The length test passing a text of exactly the minimum length as short.
IsTruncatedAtMost(text) ==
  LET stripped == Strip(text)
  IN  IF stripped = <<>> THEN FALSE
      ELSE IF Len(stripped) <= MIN_TRUNCATION_LENGTH THEN FALSE
      ELSE IF stripped[Len(stripped)] \in TerminalChars THEN FALSE
      ELSE TRUE

\* The heuristic without its length test.
IsTruncatedAnyLength(text) ==
  LET stripped == Strip(text)
  IN  IF stripped = <<>> THEN FALSE
      ELSE IF stripped[Len(stripped)] \in TerminalChars THEN FALSE
      ELSE TRUE

\* _is_truncated (transcription.py:298-311) on a str.
IsTruncated(text) ==
  LET stripped == Strip(text)
  IN  IF stripped = <<>> THEN FALSE
      ELSE IF Len(stripped) < MIN_TRUNCATION_LENGTH THEN FALSE
      ELSE IF stripped[Len(stripped)] \in TerminalChars THEN FALSE
      ELSE TRUE

(***************************************************************************)
(* json.dumps and json.loads on characters.  A parsed value is [t, s]: t   *)
(* is "str", "null", "num", "true", "false", "array" (s its items) or      *)
(* "object" (s its members [k, v] in insertion order).                     *)
(***************************************************************************)
\* Code points that name a character here, with the four hex digits
\* json.dumps writes for them.
NamedCodePoints ==
  {<<"ELLIPSIS", <<"2", "0", "2", "6">> >>,
   <<"RDQUOTE", <<"2", "0", "1", "d">> >>,
   <<"RSQUOTE", <<"2", "0", "1", "9">> >>}

HexDigits ==
  {"0", "1", "2", "3", "4", "5", "6", "7", "8", "9",
   "a", "b", "c", "d", "e", "f", "A", "B", "C", "D", "E", "F"}

Digits == {"0", "1", "2", "3", "4", "5", "6", "7", "8", "9"}

\* Characters below U+0020, which strict json.loads rejects inside a string.
ControlChars == {"\n", "\t", "\r", "\f", "BACKSPACE"}

\* json.dumps (ensure_ascii) of one character of a string.
JsonEscape(c) ==
  IF c = "\"" THEN <<"\\", "\"">>
  ELSE IF c = "\\" THEN <<"\\", "\\">>
  ELSE IF c = "\n" THEN <<"\\", "n">>
  ELSE IF c = "\t" THEN <<"\\", "t">>
  ELSE IF c = "\r" THEN <<"\\", "r">>
  ELSE IF c = "\f" THEN <<"\\", "f">>
  ELSE IF c = "BACKSPACE" THEN <<"\\", "b">>
  ELSE IF \E p \in NamedCodePoints : p[1] = c
  THEN <<"\\", "u">> \o (CHOOSE p \in NamedCodePoints : p[1] = c)[2]
  ELSE <<c>>

RECURSIVE JsonEscapeAll(_)
JsonEscapeAll(s) ==
  IF s = <<>> THEN <<>> ELSE JsonEscape(s[1]) \o JsonEscapeAll(Tail(s))

\* json.dumps of a str
JsonDumpsString(s) == <<"\"">> \o JsonEscapeAll(s) \o <<"\"">>

RECURSIVE JsonDumpsMembers(_)
JsonDumpsMembers(ms) ==
  IF ms = <<>> THEN <<>>
  ELSE JsonDumpsString(ms[1].k) \o <<":", " ">> \o JsonDumpsString(ms[1].v.s)
       \o (IF Len(ms) > 1 THEN <<",", " ">> ELSE <<>>)
       \o JsonDumpsMembers(Tail(ms))

\* json.dumps of a mapping whose values are str
JsonDumps(x) == <<"{">> \o JsonDumpsMembers(x.s) \o <<"}">>

\* The failure of a parse: a JSONDecodeError with its msg and pos.
ParseFail(msg, pos) ==
  [ok |-> FALSE, msg |-> msg, pos |-> pos, val |-> [t |-> "null", s |-> <<>>],
   next |-> pos]

ParseOk(val, next) ==
  [ok |-> TRUE, msg |-> "", pos |-> 0, val |-> val, next |-> next]

RECURSIVE SkipWs(_, _)
\* The index of the first character at or after i that is not JSON whitespace.
SkipWs(s, i) ==
  IF i <= Len(s) /\ s[i] \in {" ", "\t", "\n", "\r"} THEN SkipWs(s, i + 1) ELSE i

\* The character a backslash escape stands for.
Unescape(c) ==
  IF c = "n" THEN "\n"
  ELSE IF c = "t" THEN "\t"
  ELSE IF c = "r" THEN "\r"
  ELSE IF c = "f" THEN "\f"
  ELSE IF c = "b" THEN "BACKSPACE"
  ELSE c

\* The character of a \uXXXX escape.
CodePoint(hex) ==
  IF \E p \in NamedCodePoints : p[2] = hex
  THEN (CHOOSE p \in NamedCodePoints : p[2] = hex)[1]
  ELSE "OTHER"

RECURSIVE ScanString(_, _, _, _, _)
\* The string whose opening quote is at begin, scanned from i on; acc is what
\* was decoded so far.
ScanString(s, i, strict, acc, begin) ==
  IF i > Len(s) THEN ParseFail("Unterminated string starting at", begin)
  ELSE IF s[i] = "\"" THEN ParseOk([t |-> "str", s |-> acc], i + 1)
  ELSE IF s[i] = "\\"
  THEN IF i + 1 > Len(s) THEN ParseFail("Unterminated string starting at", begin)
       ELSE IF s[i + 1] = "u"
       THEN \* the scanner wants a character after the four digits
            IF i + 5 < Len(s) /\ \A j \in (i + 2)..(i + 5) : s[j] \in HexDigits
            THEN ScanString(s, i + 6, strict,
                            Append(acc, CodePoint(SubSeq(s, i + 2, i + 5))), begin)
            ELSE ParseFail("Invalid \\uXXXX escape", i)
       ELSE IF s[i + 1] \in {"\"", "\\", "/", "b", "f", "n", "r", "t"}
       THEN ScanString(s, i + 2, strict, Append(acc, Unescape(s[i + 1])), begin)
       ELSE ParseFail("Invalid \\escape", i)
  ELSE IF s[i] \in ControlChars /\ strict
  THEN ParseFail("Invalid control character at", i)
  ELSE ScanString(s, i + 1, strict, Append(acc, s[i]), begin)

RECURSIVE ScanDigits(_, _)
ScanDigits(s, i) ==
  IF i <= Len(s) /\ s[i] \in Digits THEN ScanDigits(s, i + 1) ELSE i

\* dict[k] = v on the members parsed so far.
DictSet(ms, k, v) ==
  IF \E j \in 1..Len(ms) : ms[j].k = k
  THEN [j \in 1..Len(ms) |-> IF ms[j].k = k THEN [k |-> k, v |-> v] ELSE ms[j]]
  ELSE Append(ms, [k |-> k, v |-> v])

RECURSIVE ParseValue(_, _, _)
RECURSIVE ParseMembers(_, _, _, _)
RECURSIVE ParseItems(_, _, _, _)

\* The members of an object from the quote of a key at i on.
ParseMembers(s, i, strict, ms) ==
  IF i > Len(s) \/ s[i] # "\""
  THEN ParseFail("Expecting property name enclosed in double quotes", i)
  ELSE LET key == ScanString(s, i + 1, strict, <<>>, i)
           colon == SkipWs(s, key.next)
           val == ParseValue(s, SkipWs(s, colon + 1), strict)
           after == SkipWs(s, val.next)
       IN  IF ~key.ok THEN key
           ELSE IF colon > Len(s) \/ s[colon] # ":"
           THEN ParseFail("Expecting ':' delimiter", colon)
           ELSE IF ~val.ok THEN val
           ELSE IF after <= Len(s) /\ s[after] = "}"
           THEN ParseOk([t |-> "object", s |-> DictSet(ms, key.val.s, val.val)],
                        after + 1)
           ELSE IF after <= Len(s) /\ s[after] = ","
           THEN ParseMembers(s, SkipWs(s, after + 1), strict,
                             DictSet(ms, key.val.s, val.val))
           ELSE ParseFail("Expecting ',' delimiter", after)

\* The items of an array from the first character of an item at i on.
ParseItems(s, i, strict, items) ==
  LET val == ParseValue(s, i, strict)
      after == SkipWs(s, val.next)
  IN  IF ~val.ok THEN val
      ELSE IF after <= Len(s) /\ s[after] = "]"
      THEN ParseOk([t |-> "array", s |-> Append(items, val.val)], after + 1)
      ELSE IF after <= Len(s) /\ s[after] = ","
      THEN ParseItems(s, SkipWs(s, after + 1), strict, Append(items, val.val))
      ELSE ParseFail("Expecting ',' delimiter", after)

\* The JSON value that starts at i (numbers: integers).
ParseValue(s, i, strict) ==
  IF i > Len(s) THEN ParseFail("Expecting value", i)
  ELSE IF s[i] = "\"" THEN ScanString(s, i + 1, strict, <<>>, i)
  ELSE IF s[i] = "{"
  THEN LET j == SkipWs(s, i + 1)
       IN  IF j <= Len(s) /\ s[j] = "}"
           THEN ParseOk([t |-> "object", s |-> <<>>], j + 1)
           ELSE ParseMembers(s, j, strict, <<>>)
  ELSE IF s[i] = "["
  THEN LET j == SkipWs(s, i + 1)
       IN  IF j <= Len(s) /\ s[j] = "]"
           THEN ParseOk([t |-> "array", s |-> <<>>], j + 1)
           ELSE ParseItems(s, j, strict, <<>>)
  ELSE IF StartsWith(SubSeq(s, i, Len(s)), <<"n", "u", "l", "l">>)
  THEN ParseOk([t |-> "null", s |-> <<>>], i + 4)
  ELSE IF StartsWith(SubSeq(s, i, Len(s)), <<"t", "r", "u", "e">>)
  THEN ParseOk([t |-> "true", s |-> <<>>], i + 4)
  ELSE IF StartsWith(SubSeq(s, i, Len(s)), <<"f", "a", "l", "s", "e">>)
  THEN ParseOk([t |-> "false", s |-> <<>>], i + 5)
  ELSE IF s[i] \in Digits
  THEN ParseOk([t |-> "num", s |-> SubSeq(s, i, ScanDigits(s, i) - 1)],
               ScanDigits(s, i))
  ELSE ParseFail("Expecting value", i)

\* json.loads(text, strict=strict)
JsonLoads(text, strict) ==
  LET v == ParseValue(text, SkipWs(text, 1), strict)
      end == SkipWs(text, v.next)
  IN  IF ~v.ok THEN v
      ELSE IF end <= Len(text) THEN ParseFail("Extra data", end)
      ELSE v

\* _strip_code_fence (transcription.py:283-295).  str.split always yields at
\* least two segments for a text that starts with the delimiter.
StripCodeFence(text) ==
  LET cleaned == Strip(text)
      seg == FirstFencedSegment(cleaned)
  IN  IF StartsWith(cleaned, Fence)
      THEN IF StartsWith(seg, <<"j", "s", "o", "n">>) THEN Strip(SubSeq(seg, 5, Len(seg)))
           ELSE IF StartsWith(seg, <<"t", "e", "x", "t">>) THEN Strip(SubSeq(seg, 5, Len(seg)))
           ELSE Strip(seg)
      ELSE cleaned

\* parsed_text[:800]
Snippet(parsed_text) ==
  SubSeq(parsed_text, 1, IF Len(parsed_text) < 800 THEN Len(parsed_text) ELSE 800)

\* One character under .encode("unicode_escape", "backslashreplace").
UnicodeEscapeChar(c) ==
  IF c = "\\" THEN <<"\\", "\\">>
  ELSE IF c = "\n" THEN <<"\\", "n">>
  ELSE IF c = "\t" THEN <<"\\", "t">>
  ELSE IF c = "\r" THEN <<"\\", "r">>
  ELSE IF c = "\f" THEN <<"\\", "x", "0", "c">>
  ELSE IF c = "BACKSPACE" THEN <<"\\", "x", "0", "8">>
  ELSE IF \E p \in NamedCodePoints : p[1] = c
  THEN <<"\\", "u">> \o (CHOOSE p \in NamedCodePoints : p[1] = c)[2]
  ELSE <<c>>

RECURSIVE UnicodeEscape(_)
\* Every character of s escaped, in order (computed by halves).
UnicodeEscape(s) ==
  IF s = <<>> THEN <<>>
  ELSE IF Len(s) = 1 THEN UnicodeEscapeChar(s[1])
  ELSE UnicodeEscape(SubSeq(s, 1, Len(s) \div 2))
       \o UnicodeEscape(SubSeq(s, Len(s) \div 2 + 1, Len(s)))

\* The exception raised as a builtin ValueError carrying the context.
LogAndRaiseParseErrorWrapping(parsed_text, session_id, exc) ==
  [exc |-> "ValueError",
   attached |-> [msg |-> exc.msg, snippet |-> UnicodeEscape(Snippet(parsed_text)),
                 session_id |-> session_id],
   logged |-> [session_id |-> session_id, error |-> exc.msg,
               snippet |-> UnicodeEscape(Snippet(parsed_text))]]

\* _log_and_raise_parse_error (transcription.py:355-369): the context goes to
\* the log and exc itself is raised, with the attributes json gave it.
LogAndRaiseParseError(parsed_text, session_id, exc) ==
  [exc |-> "JSONDecodeError",
   attached |-> [msg |-> exc.msg, doc |-> exc.doc, pos |-> exc.pos],
   logged |-> [session_id |-> session_id, error |-> exc.msg,
               snippet |-> UnicodeEscape(Snippet(parsed_text))]]

\* The JSONDecodeError of a failed json.loads(doc).
DecodeError(doc, p) == [msg |-> p.msg, doc |-> doc, pos |-> p.pos]

NothingLogged == [session_id |-> 0, error |-> "", snippet |-> <<>>]

\* Every failure of the strict parse is retried in lenient mode.
RetryLooseAlways(msg) == msg # ""

\* "Invalid control character" in str(exc) (transcription.py:340), for the
\* message of the strict parse's error.
RetryLoose(msg) == msg = "Invalid control character at"

\* _request_strict_variants from the text of the answer on
\* (transcription.py:334-352), on characters.  lenient says whether
\* json.loads(parsed_text, strict=False) was called, and how it ended.
Extract(raw_response_text, session_id) ==
  LET parsed_text == StripCodeFence(raw_response_text)
      tight == JsonLoads(parsed_text, TRUE)
      loose == JsonLoads(parsed_text, FALSE)
      failure == LogAndRaiseParseError(parsed_text, session_id,
                                       DecodeError(parsed_text, tight))
      parsed(v, mode) ==
        [exc |-> "none", variants |-> v, raw |-> raw_response_text,
         attached |-> [msg |-> ""], logged |-> NothingLogged,
         lenient |-> mode]
  IN  IF tight.ok THEN parsed(tight.val, "not_tried")
      ELSE IF RetryLoose(tight.msg)
      THEN IF loose.ok THEN parsed(loose.val, "recovered")
           ELSE failure @@ [variants |-> [t |-> "null", s |-> <<>>],
                            raw |-> <<>>, lenient |-> "failed"]
      ELSE failure @@ [variants |-> [t |-> "null", s |-> <<>>], raw |-> <<>>,
                       lenient |-> "not_tried"]

(***************************************************************************)
(* A call returns [exc, ...]: exc is "none" or the type of the exception   *)
(* the call raises.                                                        *)
(***************************************************************************)

\* A failure of the call or of the parse answered with empty strict fields.
RequestStrictVariantsSwallowing(resp) ==
  IF resp.outcome = "text" /\ resp.json \in {"valid", "control_char_recoverable"}
  THEN [exc |-> "none", variants |-> resp.doc, raw |-> resp.raw]
  ELSE [exc |-> "none",
        variants |-> [kind |-> "dict",
                      originalStrict |-> [t |-> "str", s |-> <<>>],
                      englishStrict |-> [t |-> "str", s |-> <<>>]],
        raw |-> <<>>]

\* _request_strict_variants (transcription.py:314-352) for one answer of the
\* model client.  resp.outcome: "transport_error" (generate_content raises),
\* "value_error" (the client raises ValueError), or "text"; resp.json says how
\* json.loads takes the fence-stripped text: "valid", "control_char_recoverable"
\* (strict parse fails on a raw control character, the loose parse succeeds),
\* "control_char_unrecoverable" or "malformed".
RequestStrictVariants(resp) ==
  IF resp.outcome = "transport_error"
  THEN [exc |-> "TransportError", variants |-> NonDict, raw |-> <<>>]
  ELSE IF resp.outcome = "value_error"
  THEN [exc |-> "ValueError", variants |-> NonDict, raw |-> <<>>]
  ELSE IF resp.json \in {"valid", "control_char_recoverable"}
  THEN [exc |-> "none", variants |-> resp.doc, raw |-> resp.raw]
  ELSE [exc |-> "JSONDecodeError", variants |-> NonDict, raw |-> <<>>]

\* _is_truncated(strict_variants.get(field, "")): a value that is not a str
\* has no strip method.
TruncatedField(sv, field) ==
  LET v == GetOrEmpty(sv, field)
  IN  IF v.t = "str" THEN [exc |-> "none", val |-> IsTruncated(v.s)]
      ELSE [exc |-> "AttributeError", val |-> FALSE]

\* any(_is_truncated(...) for field in (...)) (transcription.py:138-141 and
\* 200-203): the fields are examined in order and the first truthy result
\* ends the scan.
AnyTruncated(sv) ==
  IF sv.kind # "dict" THEN [exc |-> "AttributeError", val |-> FALSE]
  ELSE LET first == TruncatedField(sv, Fields[1])
       IN  IF first.exc # "none" \/ first.val THEN first
           ELSE TruncatedField(sv, Fields[2])

\* The replacement fields str.format finds in CONTINUE_PROMPT_TEMPLATE
\* (transcription.py:44-57): {partial_json}, and the JSON example of lines
\* 51-54, whose braces are not doubled and so open a field named by the text
\* up to the first colon.
ContinuePromptFields == {"partial_json", "\n  \"originalStrict\""}

\* CONTINUE_PROMPT_TEMPLATE.format(**kwargs) (transcription.py:161): a field
\* with no argument raises KeyError.
FormatContinuePrompt(kwargs) ==
  IF ContinuePromptFields \subseteq kwargs THEN [exc |-> "none"]
  ELSE [exc |-> "KeyError"]

\* The attempt counter advanced by two.
NextAttemptSkipping(retries) == retries + 2

\* retry_count += 1 (transcription.py:146)
NextAttempt(retries) == retries + 1

\* The loop test with the limit of attempts taken as zero.
LoopGuardNever(needs, retries) == needs /\ retries < 0

\* while needs_continuation and retry_count < MAX_CONTINUATION_ATTEMPTS
LoopGuard(needs, retries) == needs /\ retries < MAX_CONTINUATION_ATTEMPTS

\* (addition_raw or "").strip() (transcription.py:192-193)
Addition(addition_raw) ==
  IF addition_raw.t \in {"absent", "null"} THEN [exc |-> "none", val |-> <<>>]
  ELSE IF addition_raw.t = "str" THEN [exc |-> "none", val |-> Strip(addition_raw.s)]
  ELSE [exc |-> "AttributeError", val |-> <<>>]

\* A separator inserted whatever the base ends in.
SeparatorAlways(base) == <<" ">>

\* separator = "" if not base or base.endswith((" ", "\n")) else " "
Separator(base) ==
  IF base = <<>> \/ EndsWithSpaceOrNewline(base) THEN <<>> ELSE <<" ">>

\* The field assigned the addition instead of the concatenation.
AppendedReplacing(base, addition) == addition

\* The text of f"{base}{separator}{addition}" for a str base.
Appended(base, addition) == base \o Separator(base) \o addition

\* One pass of the merge loop body (transcription.py:192-198) for the value
\* stored under a field and the continuation's value for it.
MergeField(stored, addition_raw) ==
  LET a == Addition(addition_raw)
      base == IF stored = Absent THEN Str(<<>>) ELSE stored
  IN  IF a.exc # "none" THEN [exc |-> a.exc, val |-> stored]
      ELSE IF a.val = <<>> THEN [exc |-> "none", val |-> stored]
      ELSE IF base.t = "str" THEN [exc |-> "none", val |-> Str(Appended(base.s, a.val))]
      ELSE IF base.t = "null"
      THEN \* not None is true, and the f-string renders None as "None"
           [exc |-> "none", val |-> Str(<<"N", "o", "n", "e">> \o a.val)]
      ELSE \* a number is truthy and has no endswith
           [exc |-> "AttributeError", val |-> stored]

\* for field in ("originalStrict", "englishStrict"): ... (191-198)
MergeContinuation(sv, cont) ==
  LET m1 == MergeField(sv.originalStrict, cont.originalStrict)
      m2 == MergeField(sv.englishStrict, cont.englishStrict)
  IN  IF m1.exc # "none" THEN [exc |-> m1.exc, variants |-> sv]
      ELSE IF m2.exc # "none"
      THEN [exc |-> m2.exc, variants |-> Dict(m1.val, sv.englishStrict)]
      ELSE [exc |-> "none", variants |-> Dict(m1.val, m2.val)]

\* An except clause that catches nothing.
LoopCatchesNothing(exc) == FALSE

\* except (json.JSONDecodeError, ValueError) as exc: (transcription.py:169)
LoopCatches(exc) == exc \in {"JSONDecodeError", "ValueError"}

\* The loop body from its model call on (transcription.py:162-203) for the
\* strict variants and continuation texts held so far and one answer of the
\* model client.  exit is "raise", "break" or "next" (back to the loop test);
\* needs is needs_continuation after the body.
ContinuationBody(sv, raws, resp) ==
  LET r == RequestStrictVariants(resp)
      kept == Append(raws, Strip(r.raw))
      m == MergeContinuation(sv, r.variants)
      n == AnyTruncated(m.variants)
  IN  IF LoopCatches(r.exc)
      THEN \* logger.error(...); break (170-176)
           [exit |-> "break", exc |-> "none", origin |-> "none", variants |-> sv,
            raws |-> raws, cont |-> NonDict, needs |-> TRUE]
      ELSE IF r.exc # "none"
      THEN [exit |-> "raise", exc |-> r.exc, origin |-> "_request_strict_variants",
            variants |-> sv, raws |-> raws, cont |-> NonDict, needs |-> TRUE]
      ELSE IF r.variants.kind # "dict"
      THEN \* not isinstance(continuation_variants_raw, dict): break
           [exit |-> "break", exc |-> "none", origin |-> "none", variants |-> sv,
            raws |-> kept, cont |-> NonDict, needs |-> TRUE]
      ELSE IF m.exc # "none"
      THEN [exit |-> "raise", exc |-> m.exc, origin |-> "transcribe_audio",
            variants |-> m.variants, raws |-> kept, cont |-> r.variants,
            needs |-> TRUE]
      ELSE IF n.exc # "none"
      THEN [exit |-> "raise", exc |-> n.exc, origin |-> "transcribe_audio",
            variants |-> m.variants, raws |-> kept, cont |-> r.variants,
            needs |-> TRUE]
      ELSE [exit |-> "next", exc |-> "none", origin |-> "none",
            variants |-> m.variants, raws |-> kept, cont |-> r.variants,
            needs |-> n.val]

\* apply_light_edit (transcription.py:63-103).  The prompt is built by
\* "Text:\n" + text before the try block; the model call and the handling of
\* its answer are inside it.
ApplyLightEdit(text, resp) ==
  IF text.t # "str" THEN [exc |-> "TypeError", val |-> text]
  ELSE IF resp.outcome # "text" THEN [exc |-> "none", val |-> text]
  ELSE [exc |-> "none", val |-> Str(StripLightFence(Strip(resp.text)))]

\* "\n\n--- CONTINUATION ---\n\n"
ContinuationMarker ==
  <<"\n", "\n", "-", "-", "-", " ", "C", "O", "N", "T", "I", "N", "U", "A",
    "T", "I", "O", "N", " ", "-", "-", "-", "\n", "\n">>

RECURSIVE Join(_, _)
\* sep.join(parts)
Join(sep, parts) ==
  IF parts = <<>> THEN <<>>
  ELSE IF Len(parts) = 1 THEN parts[1]
  ELSE parts[1] \o sep \o Join(sep, Tail(parts))

\* The payload without the continuation texts.
RawPayloadInitialOnly(raw_response_text, continuation_raws) ==
  Strip(raw_response_text)

\* raw_payload (transcription.py:244-247)
RawPayload(raw_response_text, continuation_raws) ==
  IF continuation_raws = <<>> THEN Strip(raw_response_text)
  ELSE Strip(Strip(raw_response_text) \o ContinuationMarker
             \o Join(ContinuationMarker, continuation_raws))

(***************************************************************************)
(* Archive (archive.py).  A backend is named by its backend_name: "none"   *)
(* (NullBackend), "local" (LocalFilesystemBackend), "vercel_blob"          *)
(* (VercelBlobBackend).  A descriptor is [keys, enabled, backend, error],  *)
(* keys being the keys present in the returned mapping.                    *)
(***************************************************************************)
NoDescriptor == [keys |-> {}, enabled |-> FALSE, backend |-> "", error |-> ""]

\* ArchiveManager.from_env (archive.py:220-252) for the environment read at
\* the call: storage_mode is ARCHIVE_STORAGE stripped and lower-cased, token
\* whether VERCEL_BLOB_READ_WRITE_TOKEN is set, httpx whether the import
\* succeeded, dir_ok whether LocalFilesystemBackend.__init__ can mkdir the
\* archive directory.
FromEnv(env) ==
  IF env.storage_mode = "local"
  THEN IF env.dir_ok THEN [exc |-> "none", backend |-> "local"]
       ELSE [exc |-> "OSError", backend |-> "none"]
  ELSE IF env.storage_mode = "vercel_blob"
  THEN IF ~env.token THEN [exc |-> "none", backend |-> "none"]
       ELSE IF env.httpx THEN [exc |-> "none", backend |-> "vercel_blob"]
       ELSE [exc |-> "none", backend |-> "none"]
  ELSE [exc |-> "none", backend |-> "none"]

\* get_archive_manager (archive.py:293-297); cached is the value of the
\* module global _default_manager after the call ("unset" is None).
GetArchiveManager(cached, env) ==
  IF cached # "unset" THEN [exc |-> "none", manager |-> cached, cached |-> cached]
  ELSE LET f == FromEnv(env)
       IN  IF f.exc # "none" THEN [exc |-> f.exc, manager |-> "unset", cached |-> "unset"]
           ELSE [exc |-> "none", manager |-> f.backend, cached |-> f.backend]

\* backend.store for the outcome io of the backend's I/O: io.ok, or an
\* exception whose str() is io.msg.
Store(backend, io) ==
  IF backend = "none"
  THEN [exc |-> "none", msg |-> "",
        val |-> [keys |-> {"enabled", "backend"}, enabled |-> FALSE,
                 backend |-> "none", error |-> ""]]
  ELSE IF io.ok
  THEN [exc |-> "none", msg |-> "",
        val |-> [keys |-> {"enabled", "backend", "artifacts"}, enabled |-> TRUE,
                 backend |-> backend, error |-> ""]]
  ELSE [exc |-> "Exception", msg |-> io.msg, val |-> NoDescriptor]

\* persist_session without its except clause: the backend's exception
\* propagates.
PersistSessionUnguarded(backend, io) ==
  LET r == Store(backend, io)
  IN  [exc |-> r.exc, val |-> r.val]

\* ArchiveManager.persist_session (archive.py:254-287)
PersistSession(backend, io) ==
  LET r == Store(backend, io)
  IN  IF r.exc # "none"
      THEN [exc |-> "none",
            val |-> [keys |-> {"enabled", "backend", "error"}, enabled |-> FALSE,
                     backend |-> backend, error |-> r.msg]]
      ELSE LET b == IF "backend" \in r.val.keys THEN r.val.backend ELSE backend
               e == IF "enabled" \in r.val.keys THEN r.val.enabled ELSE b # "none"
           IN  [exc |-> "none",
                val |-> [r.val EXCEPT !.keys = @ \cup {"backend", "enabled"},
                                      !.backend = b, !.enabled = e]]

(***************************************************************************)
(* Inputs                                                                  *)
(***************************************************************************)
\* A text of exactly MIN_TRUNCATION_LENGTH plain characters.
Pad == [i \in 1..MIN_TRUNCATION_LENGTH |-> "a"]

InitialTexts ==
  {<<>>, Pad, Pad \o <<".">>, Pad \o <<" ">>, Pad \o <<"\n">>, Pad \o <<"\t">>}

InitialValues == {Absent, Null, Num} \cup {Str(t) : t \in InitialTexts}

AdditionTexts == {<<>>, <<" ">>, <<"b">>, <<" ", "b", ".", "\n">>}

AdditionValues == {Absent, Null, Num} \cup {Str(t) : t \in AdditionTexts}

TextResponse(json, raw, doc) ==
  [outcome |-> "text", json |-> json, raw |-> raw, doc |-> doc]

ErrorResponses ==
  {[outcome |-> o, json |-> "valid", raw |-> <<>>, doc |-> NonDict] :
     o \in {"transport_error", "value_error"}}
  \cup {TextResponse(j, <<"{">>, NonDict) :
          j \in {"malformed", "control_char_unrecoverable"}}

\* What the model client can answer to the initial strict request.
InitialResponses ==
  ErrorResponses
  \cup {TextResponse("valid", <<"[", "]">>, NonDict)}
  \cup {TextResponse("valid", <<" ", "{", "1", "}", "\n">>, Dict(o, e)) :
          o \in InitialValues, e \in InitialValues}
  \cup {TextResponse("control_char_recoverable", <<"{", "\n", "}">>,
                     Dict(Str(Pad), Str(Pad)))}

\* What the model client can answer to a continuation request.
ContinuationResponses ==
  ErrorResponses
  \cup {TextResponse("valid", <<"[", "]">>, NonDict)}
  \cup {TextResponse("valid", <<"{", "2", "}", " ">>, Dict(o, e)) :
          o \in AdditionValues, e \in AdditionValues}

\* What the model client can answer to a light-edit request.
LightResponses ==
  {[outcome |-> "error", text |-> <<>>],
   [outcome |-> "text", text |-> <<" ", "e", ".", "\n">>],
   [outcome |-> "text",
    text |-> Fence \o <<"t", "e", "x", "t", "\n", "e", "\n">> \o Fence]}

Envs ==
  {[storage_mode |-> "none", token |-> FALSE, httpx |-> TRUE, dir_ok |-> TRUE],
   [storage_mode |-> "s3", token |-> FALSE, httpx |-> TRUE, dir_ok |-> TRUE],
   [storage_mode |-> "local", token |-> FALSE, httpx |-> TRUE, dir_ok |-> TRUE],
   [storage_mode |-> "local", token |-> FALSE, httpx |-> TRUE, dir_ok |-> FALSE],
   [storage_mode |-> "vercel_blob", token |-> FALSE, httpx |-> TRUE, dir_ok |-> TRUE],
   [storage_mode |-> "vercel_blob", token |-> TRUE, httpx |-> TRUE, dir_ok |-> TRUE],
   [storage_mode |-> "vercel_blob", token |-> TRUE, httpx |-> FALSE, dir_ok |-> TRUE]}

\* Outcomes of a backend's I/O; str() of an exception may be empty.
StoreOutcomes ==
  {[ok |-> TRUE, msg |-> ""], [ok |-> FALSE, msg |-> ""],
   [ok |-> FALSE, msg |-> "disk full"]}

(***************************************************************************)
(* State                                                                   *)
(***************************************************************************)
VARIABLES
  pc,                          \* position of the session in transcribe_audio
  stages,                      \* the steps of the session begun so far, in order
  sessions,                    \* sessions received by this process so far
  default_manager,             \* archive.py global _default_manager
  selections,                  \* outcomes of the ArchiveManager.from_env calls so far
  strict_variants,
  raw_response_text,
  continuation_raw_responses,
  continuation_variants,       \* the mapping merged by the last round, if any
  strict_before,               \* strict_variants when the last round began
  received,                    \* texts the model returned to continuation requests
  retry_count,
  needs_continuation,
  truncation_detected,
  original_light,
  english_light,
  raw_payload,                 \* [built, text]: the local raw_payload
  archive_call,                \* the arguments of the persist_session call
  archive_info,
  store_raised,                \* what backend.store raised in this session
  result,                      \* the mapping returned to the caller
  error,                       \* the exception raised to the caller
  model_calls,                 \* the generate_content calls of the session, in order
  arg,                         \* the argument of the function under examination
  ret,                         \* what it returned or raised
  task_at,                     \* event loop: where each request's task is
  loop_owner                   \* event loop: the task running on it, 0 if none

sessionVars ==
  <<strict_variants, raw_response_text, continuation_raw_responses,
    continuation_variants, strict_before, received, retry_count,
    needs_continuation, truncation_detected, original_light, english_light,
    raw_payload, archive_call, archive_info, store_raised, result, error,
    model_calls>>

\* The variables of the specifications that examine one function or the
\* event loop; the session pipeline leaves them alone.
auxVars == <<arg, ret, task_at, loop_owner>>

vars == <<pc, stages, sessions, default_manager, selections,
          sessionVars, auxVars>>

NoException == [exc |-> "none", msg |-> ""]

NoError == [type |-> "none", cause |-> "none", origin |-> "none"]

\* The except clauses of transcribe_audio (transcription.py:277-282): a
\* JSONDecodeError reaches the caller as a ValueError, anything else as is.
Raised(exc, origin) ==
  [type |-> IF exc = "JSONDecodeError" THEN "ValueError" ELSE exc,
   cause |-> exc, origin |-> origin]

NoPayload == [built |-> FALSE, text |-> <<>>]

NoCall ==
  [called |-> FALSE, calls |-> 0, raw_response_text |-> <<>>, strict_variants |-> NonDict,
   originalLight |-> Absent, englishLight |-> Absent,
   continuationAttempts |-> 0, truncationDetected |-> FALSE,
   truncatedAfterRetries |-> FALSE]

\* Nothing was returned or raised yet.
NoReturn == [exc |-> "unset"]

NoResult ==
  [returned |-> FALSE, archive |-> NoDescriptor,
   originalStrict |-> Absent, originalLight |-> Absent,
   englishStrict |-> Absent, englishLight |-> Absent]

\* The process after import: no session yet, _default_manager = None.
Init ==
  /\ pc = "Idle"
  /\ stages = <<>>
  /\ sessions = 0
  /\ default_manager = "unset"
  /\ selections = <<>>
  /\ strict_variants = NonDict
  /\ raw_response_text = <<>>
  /\ continuation_raw_responses = <<>>
  /\ continuation_variants = NonDict
  /\ strict_before = NonDict
  /\ received = <<>>
  /\ retry_count = 0
  /\ needs_continuation = FALSE
  /\ truncation_detected = FALSE
  /\ original_light = Absent
  /\ english_light = Absent
  /\ raw_payload = NoPayload
  /\ archive_call = NoCall
  /\ archive_info = NoDescriptor
  /\ store_raised = NoException
  /\ result = NoResult
  /\ error = NoError
  /\ model_calls = <<>>
  /\ arg = <<>>
  /\ ret = NoReturn
  /\ task_at = <<>>
  /\ loop_owner = 0

\* The step ends in an exception: transcribe_audio re-raises to its caller.
Fail(step, exc, origin) ==
  /\ pc' = "Failed"
  /\ stages' = stages \o <<step, "Failed">>
  /\ error' = Raised(exc, origin)

(***************************************************************************)
(* transcribe_audio, one action per step                                   *)
(***************************************************************************)

\* A request arrives (transcription.py:112-125): the locals of a new call.
Receive ==
  /\ pc \in {"Idle", "Complete", "Failed"}
  /\ sessions < MaxSessions
  /\ sessions' = sessions + 1
  /\ pc' = "Received"
  /\ stages' = <<"Received">>
  /\ strict_variants' = NonDict
  /\ raw_response_text' = <<>>
  /\ continuation_raw_responses' = <<>>
  /\ continuation_variants' = NonDict
  /\ strict_before' = NonDict
  /\ received' = <<>>
  /\ retry_count' = 0
  /\ needs_continuation' = FALSE
  /\ truncation_detected' = FALSE
  /\ original_light' = Absent
  /\ english_light' = Absent
  /\ raw_payload' = NoPayload
  /\ archive_call' = NoCall
  /\ archive_info' = NoDescriptor
  /\ store_raised' = NoException
  /\ result' = NoResult
  /\ error' = NoError
  /\ model_calls' = <<>>
  /\ UNCHANGED <<default_manager, selections, auxVars>>

\* The record of a generate_content call made through
\* _request_strict_variants: what it was for and what the client answered.
ModelCall(kind, resp) ==
  [kind |-> kind, outcome |-> resp.outcome, json |-> resp.json,
   text |-> resp.raw]

\* Step 1 and the first truncation test (transcription.py:127-143).
RequestStrict ==
  /\ pc = "Received"
  /\ \E resp \in InitialResponses :
       LET r == RequestStrictVariants(resp)
           n == AnyTruncated(r.variants)
       IN  /\ model_calls' = Append(model_calls, ModelCall("strict", resp))
           /\ strict_variants' = r.variants
           /\ raw_response_text' = r.raw
           /\ IF r.exc # "none"
              THEN /\ Fail("StrictTranscribed", r.exc, "_request_strict_variants")
                   /\ UNCHANGED <<needs_continuation, truncation_detected>>
              ELSE IF n.exc # "none"
              THEN /\ Fail("StrictTranscribed", n.exc, "transcribe_audio")
                   /\ UNCHANGED <<needs_continuation, truncation_detected>>
              ELSE /\ pc' = "Loop"
                   /\ stages' = Append(stages, "StrictTranscribed")
                   /\ needs_continuation' = n.val
                   /\ truncation_detected' = n.val
                   /\ UNCHANGED error
  /\ UNCHANGED <<sessions, default_manager, selections, continuation_raw_responses,
                 continuation_variants, strict_before, received, retry_count,
                 original_light, english_light, raw_payload, archive_call,
                 archive_info, store_raised, result, auxVars>>

\* The texts the model client returned to continuation requests, with the
\* one of resp added.
Received(rs, resp) ==
  IF resp.outcome = "text"
  THEN Append(rs, [text |-> resp.raw,
                   parsed |-> RequestStrictVariants(resp).exc = "none"])
  ELSE rs

\* One iteration of the continuation loop (transcription.py:145-203): the
\* attempt is counted, the prompt is formatted, and then the model is called
\* and its answer handled.
ContinuationRound ==
  /\ pc = "Loop"
  /\ LoopGuard(needs_continuation, retry_count)
  /\ retry_count' = NextAttempt(retry_count)
  /\ strict_before' = strict_variants
  /\ IF FormatContinuePrompt({"partial_json"}).exc # "none"
     THEN /\ Fail("Continuation", FormatContinuePrompt({"partial_json"}).exc,
                  "transcribe_audio")
          /\ UNCHANGED <<strict_variants, continuation_raw_responses,
                         continuation_variants, needs_continuation, received,
                         model_calls>>
     ELSE \E resp \in ContinuationResponses :
            LET b == ContinuationBody(strict_variants,
                                      continuation_raw_responses, resp)
            IN  /\ received' = Received(received, resp)
                /\ model_calls' = Append(model_calls, ModelCall("continuation", resp))
                /\ strict_variants' = b.variants
                /\ continuation_raw_responses' = b.raws
                /\ continuation_variants' = b.cont
                /\ IF b.exit = "raise"
                   THEN /\ Fail("Continuation", b.exc, b.origin)
                        /\ UNCHANGED needs_continuation
                   ELSE /\ pc' = IF b.exit = "break" THEN "AfterLoop" ELSE "Loop"
                        /\ stages' = Append(stages, "Continuation")
                        /\ needs_continuation' =
                             IF b.exit = "break" THEN needs_continuation ELSE b.needs
                        /\ UNCHANGED error
  /\ UNCHANGED <<sessions, default_manager, selections, raw_response_text,
                 truncation_detected, original_light, english_light,
                 raw_payload, archive_call, archive_info, store_raised, result,
                 auxVars>>

\* The while loop is over: its test failed or a break left it.
LoopExited ==
  \/ pc = "AfterLoop"
  \/ pc = "Loop" /\ ~LoopGuard(needs_continuation, retry_count)

\* original_light = await apply_light_edit(strict_variants["originalStrict"])
\* (transcription.py:205-216)
LightEditOriginal ==
  /\ LoopExited
  /\ \E resp \in LightResponses :
       LET a == ApplyLightEdit(strict_variants.originalStrict, resp)
       IN  IF strict_variants.originalStrict = Absent
           THEN /\ Fail("LightEdited", "KeyError", "transcribe_audio")
                /\ UNCHANGED <<original_light, model_calls>>
           ELSE IF a.exc # "none"
           THEN /\ Fail("LightEdited", a.exc, "apply_light_edit")
                /\ UNCHANGED <<original_light, model_calls>>
           ELSE /\ pc' = "LightOriginal"
                /\ stages' = Append(stages, "LightEdited")
                /\ original_light' = a.val
                /\ model_calls' =
                     Append(model_calls,
                            [kind |-> "light", outcome |-> resp.outcome,
                             json |-> "none", text |-> resp.text])
                /\ UNCHANGED error
  /\ UNCHANGED <<sessions, default_manager, selections, strict_variants, raw_response_text,
                 continuation_raw_responses, continuation_variants,
                 strict_before, received, retry_count, needs_continuation,
                 truncation_detected, english_light, raw_payload,
                 archive_call, archive_info, store_raised, result, auxVars>>

\* english_light = await apply_light_edit(strict_variants["englishStrict"])
\* (transcription.py:217-222)
LightEditEnglish ==
  /\ pc = "LightOriginal"
  /\ \E resp \in LightResponses :
       LET a == ApplyLightEdit(strict_variants.englishStrict, resp)
       IN  IF strict_variants.englishStrict = Absent
           THEN /\ pc' = "Failed"
                /\ stages' = Append(stages, "Failed")
                /\ error' = Raised("KeyError", "transcribe_audio")
                /\ UNCHANGED <<english_light, model_calls>>
           ELSE IF a.exc # "none"
           THEN /\ pc' = "Failed"
                /\ stages' = Append(stages, "Failed")
                /\ error' = Raised(a.exc, "apply_light_edit")
                /\ UNCHANGED <<english_light, model_calls>>
           ELSE /\ pc' = "LightEdited"
                /\ english_light' = a.val
                /\ model_calls' =
                     Append(model_calls,
                            [kind |-> "light", outcome |-> resp.outcome,
                             json |-> "none", text |-> resp.text])
                /\ UNCHANGED <<stages, error>>
  /\ UNCHANGED <<sessions, default_manager, selections, strict_variants, raw_response_text,
                 continuation_raw_responses, continuation_variants,
                 strict_before, received, retry_count, needs_continuation,
                 truncation_detected, original_light, raw_payload,
                 archive_call, archive_info, store_raised, result, auxVars>>

\* Archival (transcription.py:224-262): get_archive_manager, the raw payload
\* and persist_session.
Archive ==
  /\ pc = "LightEdited"
  /\ \E env \in Envs, io \in StoreOutcomes :
       LET g == GetArchiveManager(default_manager, env)
           p == PersistSession(g.manager, io)
       IN  /\ default_manager' = g.cached
           /\ selections' =
                IF default_manager # "unset" THEN selections
                ELSE Append(selections,
                            IF g.exc # "none" THEN g.exc ELSE g.manager)
           /\ IF g.exc # "none"
              THEN /\ Fail("Archived", g.exc, "get_archive_manager")
                   /\ UNCHANGED <<raw_payload, archive_call, archive_info,
                                  store_raised>>
              ELSE /\ raw_payload' =
                        [built |-> TRUE,
                         text |-> RawPayload(raw_response_text,
                                             continuation_raw_responses)]
                   /\ archive_call' =
                        [called |-> TRUE,
                         calls |-> archive_call.calls + 1,
                         raw_response_text |->
                           RawPayload(raw_response_text, continuation_raw_responses),
                         strict_variants |-> strict_variants,
                         originalLight |-> original_light,
                         englishLight |-> english_light,
                         continuationAttempts |-> retry_count,
                         truncationDetected |-> truncation_detected,
                         truncatedAfterRetries |-> needs_continuation]
                   /\ store_raised' =
                        [exc |-> Store(g.manager, io).exc,
                         msg |-> Store(g.manager, io).msg]
                   /\ IF p.exc # "none"
                      THEN /\ Fail("Archived", p.exc, "persist_session")
                           /\ UNCHANGED archive_info
                      ELSE /\ pc' = "Archived"
                           /\ stages' = Append(stages, "Archived")
                           /\ archive_info' = p.val
                           /\ UNCHANGED error
  /\ UNCHANGED <<sessions, strict_variants, raw_response_text,
                 continuation_raw_responses, continuation_variants,
                 strict_before, received, retry_count, needs_continuation,
                 truncation_detected, original_light, english_light, result,
                 model_calls, auxVars>>

\* The light fields of the response filled with the strict texts.
ResponseStrictOnly(archive, strict, light_original, light_english) ==
  [returned |-> TRUE, archive |-> archive,
   originalStrict |-> strict.originalStrict,
   originalLight |-> strict.originalStrict,
   englishStrict |-> strict.englishStrict,
   englishLight |-> strict.englishStrict]

\* The mapping transcribe_audio returns (transcription.py:264-272).
Response(archive, strict, light_original, light_english) ==
  [returned |-> TRUE, archive |-> archive,
   originalStrict |-> strict.originalStrict,
   originalLight |-> light_original,
   englishStrict |-> strict.englishStrict,
   englishLight |-> light_english]

\* Step 3 (transcription.py:264-275): the response.
Respond ==
  /\ pc = "Archived"
  /\ pc' = "Complete"
  /\ stages' = Append(stages, "Complete")
  /\ result' = Response(archive_info, strict_variants, original_light,
                         english_light)
  /\ UNCHANGED <<sessions, default_manager, selections, strict_variants, raw_response_text,
                 continuation_raw_responses, continuation_variants,
                 strict_before, received, retry_count, needs_continuation,
                 truncation_detected, original_light, english_light,
                 raw_payload, archive_call, archive_info, store_raised, error,
                 model_calls, auxVars>>

Next ==
  \/ Receive
  \/ RequestStrict
  \/ ContinuationRound
  \/ LightEditOriginal
  \/ LightEditEnglish
  \/ Archive
  \/ Respond

Spec == Init /\ [][Next]_vars

(***************************************************************************)
(* The continuation handling as functions of their inputs.  In             *)
(* transcribe_audio the statements after the prompt formatting of line 161 *)
(* are never reached (FormatContinuePrompt raises), so what the loop body  *)
(* does with an answer of the model, and what raw_payload does with the    *)
(* continuation texts, is examined here by applying ContinuationBody and   *)
(* RawPayload to inputs drawn from the same sets as above.                 *)
(***************************************************************************)

\* The strict variants the loop body can be handed: mappings for which the
\* truncation test of the loop is true.
TruncatedDicts ==
  {d \in {Dict(o, e) : o \in InitialValues, e \in InitialValues} :
     AnyTruncated(d) = [exc |-> "none", val |-> TRUE]}

BodyInit ==
  /\ pc = "Body"
  /\ stages = <<>>
  /\ sessions = 0
  /\ default_manager = "unset"
  /\ selections = <<>>
  /\ strict_variants \in TruncatedDicts
  /\ raw_response_text = <<" ", "{", "1", "}", "\n">>
  /\ continuation_raw_responses = <<>>
  /\ continuation_variants = NonDict
  /\ strict_before = strict_variants
  /\ received = <<>>
  /\ retry_count = 0
  /\ needs_continuation = TRUE
  /\ truncation_detected = TRUE
  /\ original_light = Absent
  /\ english_light = Absent
  /\ raw_payload = NoPayload
  /\ archive_call = NoCall
  /\ archive_info = NoDescriptor
  /\ store_raised = NoException
  /\ result = NoResult
  /\ error = NoError
  /\ model_calls = <<>>
  /\ arg = <<>>
  /\ ret = NoReturn
  /\ task_at = <<>>
  /\ loop_owner = 0

\* ContinuationBody applied to the current values and one answer.
ApplyBody ==
  /\ pc = "Body"
  /\ needs_continuation
  /\ retry_count < MaxRounds
  /\ retry_count' = NextAttempt(retry_count)
  /\ strict_before' = strict_variants
  /\ \E resp \in ContinuationResponses :
       LET b == ContinuationBody(strict_variants, continuation_raw_responses, resp)
       IN  /\ received' = Received(received, resp)
           /\ strict_variants' = b.variants
           /\ continuation_raw_responses' = b.raws
           /\ continuation_variants' = b.cont
           /\ needs_continuation' =
                IF b.exit = "next" THEN b.needs ELSE needs_continuation
           /\ pc' = IF b.exit = "raise" THEN "BodyRaised"
                    ELSE IF b.exit = "break" THEN "BodyBroke" ELSE "Body"
           /\ error' = IF b.exit = "raise" THEN Raised(b.exc, b.origin) ELSE error
           /\ model_calls' = Append(model_calls, ModelCall("continuation", resp))
  /\ UNCHANGED <<stages, sessions, default_manager, selections, raw_response_text,
                 truncation_detected, original_light, english_light,
                 raw_payload, archive_call, archive_info, store_raised, result,
                 auxVars>>

\* RawPayload applied to the texts kept by the rounds made.
ApplyRawPayload ==
  /\ \/ pc = "BodyBroke"
     \/ pc = "Body" /\ retry_count > 0
  /\ pc' = "PayloadBuilt"
  /\ raw_payload' =
       [built |-> TRUE,
        text |-> RawPayload(raw_response_text, continuation_raw_responses)]
  /\ UNCHANGED <<stages, sessions, default_manager, selections, strict_variants,
                 raw_response_text, continuation_raw_responses,
                 continuation_variants, strict_before, received, retry_count,
                 needs_continuation, truncation_detected, original_light,
                 english_light, archive_call, archive_info, store_raised,
                 result, error, model_calls, auxVars>>

BodyNext ==
  \/ ApplyBody
  \/ ApplyRawPayload

BodySpec == BodyInit /\ [][BodyNext]_vars

(***************************************************************************)
(* The JSON extraction of _request_strict_variants as a function of the    *)
(* characters the model returned.                                          *)
(***************************************************************************)
\* The texts of the string values of the mappings serialized below.
ValueTexts ==
  {<<>>, <<"a">>, <<"BACKTICK">>, <<"a", "BACKTICK", "BACKTICK", "b">>,
   Fence, <<"a", " ">> \o Fence \o <<"b">>, <<"a", "\"", "\\">>,
   <<"a", "\n", "b", "\t">>, <<"ELLIPSIS", "RDQUOTE">>, <<"j", "s", "o", "n">>}

Mapping(ms) == [t |-> "object", s |-> ms]

\* Mappings with string values under zero, one or two keys.
Mappings ==
  {Mapping(<<>>)}
  \cup {Mapping(<<[k |-> <<"o">>, v |-> Str(v)]>>) : v \in ValueTexts}
  \cup {Mapping(<<[k |-> <<"o">>, v |-> Str(v)], [k |-> <<"e">>, v |-> Str(w)]>>) :
          v \in ValueTexts, w \in ValueTexts}

\* A text between an opening fence tagged json and a closing fence, as the
\* model wraps its answers.
FenceWrap(text) ==
  Fence \o <<"j", "s", "o", "n", "\n">> \o text \o <<"\n">> \o Fence

NoSource == [t |-> "none", s |-> <<>>]

\* Answers that are not the serialization of a mapping: empty, prose, cut
\* off, with a raw line break inside a string (alone, and followed by a
\* second error), wrapped in a fence tagged text, and one longer than the
\* logged excerpt.
OtherTexts ==
  {<<>>,
   <<"S", "o", "r", "r", "y", ".">>,
   <<"{", "\"", "o", "\"", ":", " ", "\"", "a">>,
   <<"{", "\"", "o", "\"", ":", " ", "\"", "a", "\n", "b", "\"", "}">>,
   <<"{", "\"", "o", "\"", ":", " ", "\"", "a", "\n", "b", "\"", ",", "}">>,
   Fence \o <<"t", "e", "x", "t", "\n", "[", "1", ",", " ", "n", "u", "l", "l", "]", "\n">>
     \o Fence,
   <<"{", "\"", "o", "\"", ":", " ", "\"", "ELLIPSIS", "\t">>,
   <<"{", "\"", "o", "\"", ":", "BACKSPACE", "\"", "a", "\"", "}">>,
   <<"{">> \o [i \in 1..800 |-> "a"]}

SessionIds == {1, 2}

ExtractArgs ==
  {[text |-> FenceWrap(JsonDumps(x)), session_id |-> 1, source |-> x] : x \in Mappings}
  \cup {[text |-> t, session_id |-> id, source |-> NoSource] :
          t \in OtherTexts, id \in SessionIds}

ExtractInit ==
  /\ pc = "Extract"
  /\ arg \in ExtractArgs
  /\ ret = NoReturn
  /\ stages = <<>>
  /\ sessions = 0
  /\ default_manager = "unset"
  /\ selections = <<>>
  /\ strict_variants = NonDict
  /\ raw_response_text = <<>>
  /\ continuation_raw_responses = <<>>
  /\ continuation_variants = NonDict
  /\ strict_before = NonDict
  /\ received = <<>>
  /\ retry_count = 0
  /\ needs_continuation = FALSE
  /\ truncation_detected = FALSE
  /\ original_light = Absent
  /\ english_light = Absent
  /\ raw_payload = NoPayload
  /\ archive_call = NoCall
  /\ archive_info = NoDescriptor
  /\ store_raised = NoException
  /\ result = NoResult
  /\ error = NoError
  /\ model_calls = <<>>
  /\ task_at = <<>>
  /\ loop_owner = 0

\* Extract applied to the text.
CallExtract ==
  /\ pc = "Extract"
  /\ pc' = "Extracted"
  /\ ret' = Extract(arg.text, arg.session_id)
  /\ UNCHANGED <<stages, sessions, default_manager, selections, sessionVars, arg, task_at,
                 loop_owner>>

ExtractNext == CallExtract

ExtractSpec == ExtractInit /\ [][ExtractNext]_vars

(***************************************************************************)
(* _is_truncated as a function of its text.                                *)
(***************************************************************************)
\* n plain characters.
Plain(n) == [i \in 1..n |-> "a"]

\* Lengths on both sides of MIN_TRUNCATION_LENGTH, and short ones.
BodyLengths ==
  {0, 1, MIN_TRUNCATION_LENGTH - 2, MIN_TRUNCATION_LENGTH - 1,
   MIN_TRUNCATION_LENGTH, MIN_TRUNCATION_LENGTH + 1}

LastChars ==
  {".", "!", "?", "\"", "'", ")", "ELLIPSIS", "RDQUOTE", "RSQUOTE", "a", ",", ":"}

LeadingWhitespace == {<<>>, <<" ">>}

TrailingWhitespace == {<<>>, <<" ">>, <<"\n", "\t">>}

\* Texts that end in each kind of character, with and without surrounding
\* whitespace, and texts of whitespace only.
TruncationTexts ==
  {l \o Plain(n) \o <<c>> \o t :
     l \in LeadingWhitespace, n \in BodyLengths, c \in LastChars,
     t \in TrailingWhitespace}
  \cup {[i \in 1..n |-> " "] : n \in BodyLengths}

TruncInit ==
  /\ pc = "Judge"
  /\ arg \in TruncationTexts
  /\ ret = NoReturn
  /\ stages = <<>>
  /\ sessions = 0
  /\ default_manager = "unset"
  /\ selections = <<>>
  /\ strict_variants = NonDict
  /\ raw_response_text = <<>>
  /\ continuation_raw_responses = <<>>
  /\ continuation_variants = NonDict
  /\ strict_before = NonDict
  /\ received = <<>>
  /\ retry_count = 0
  /\ needs_continuation = FALSE
  /\ truncation_detected = FALSE
  /\ original_light = Absent
  /\ english_light = Absent
  /\ raw_payload = NoPayload
  /\ archive_call = NoCall
  /\ archive_info = NoDescriptor
  /\ store_raised = NoException
  /\ result = NoResult
  /\ error = NoError
  /\ model_calls = <<>>
  /\ task_at = <<>>
  /\ loop_owner = 0

\* _is_truncated applied to the text.
CallIsTruncated ==
  /\ pc = "Judge"
  /\ pc' = "Judged"
  /\ ret' = [exc |-> "none", val |-> IsTruncated(arg)]
  /\ UNCHANGED <<stages, sessions, default_manager, selections, sessionVars, arg, task_at,
                 loop_owner>>

TruncNext == CallIsTruncated

TruncSpec == TruncInit /\ [][TruncNext]_vars

(***************************************************************************)
(* The requests of one process on its event loop.  Each request runs as a  *)
(* task; one task at a time runs on the loop (loop_owner), from where it   *)
(* is resumed to where it suspends or ends.  A task inside a call that     *)
(* does not suspend keeps the loop until the call returns.                 *)
(***************************************************************************)
Tasks == 1..MaxTasks

\* Positions at which a task is off the loop, and from which it is resumed.
Resumable == {"scheduled", "read_ready", "store_ready"}

\* The task is inside a call to the model client or to the archive backend
\* that has not returned yet.
InExternalCall(t) ==
  task_at[t] \in {"strict_call", "light_original_call", "light_english_call",
                  "store_wait"}

\* What the steps of the event loop leave alone: the variables of one session.
loopFrame == <<pc, stages, sessions, default_manager, selections,
              sessionVars, arg, ret>>

LoopInit ==
  /\ pc = "Serving"
  /\ task_at = [t \in Tasks |-> "idle"]
  /\ loop_owner = 0
  \* the manager cached by an earlier request
  /\ default_manager \in {"none", "local", "vercel_blob"}
  /\ selections = <<default_manager>>
  /\ arg = <<>>
  /\ ret = NoReturn
  /\ stages = <<>>
  /\ sessions = 0
  /\ strict_variants = NonDict
  /\ raw_response_text = <<>>
  /\ continuation_raw_responses = <<>>
  /\ continuation_variants = NonDict
  /\ strict_before = NonDict
  /\ received = <<>>
  /\ retry_count = 0
  /\ needs_continuation = FALSE
  /\ truncation_detected = FALSE
  /\ original_light = Absent
  /\ english_light = Absent
  /\ raw_payload = NoPayload
  /\ archive_call = NoCall
  /\ archive_info = NoDescriptor
  /\ store_raised = NoException
  /\ result = NoResult
  /\ error = NoError
  /\ model_calls = <<>>

\* The server accepts a request and schedules its endpoint coroutine
\* (index.py:107-108); the loop does this between tasks.
Accept(t) ==
  /\ loop_owner = 0
  /\ task_at[t] = "idle"
  /\ task_at' = [task_at EXCEPT ![t] = "scheduled"]
  /\ UNCHANGED loop_owner
  /\ UNCHANGED loopFrame

\* The loop resumes a task that is ready to run.
Resume(t) ==
  /\ loop_owner = 0
  /\ task_at[t] \in Resumable
  /\ loop_owner' = t
  /\ task_at' = [task_at EXCEPT ![t] =
                   IF @ = "scheduled" THEN "endpoint"
                   ELSE IF @ = "read_ready" THEN "transcribe"
                   ELSE "respond"]
  /\ UNCHANGED loopFrame

\* contents = await audio.read() (index.py:113): the upload is read in a
\* worker thread while the task is suspended, or directly when it is held
\* in memory.
AwaitRead(t) ==
  /\ loop_owner = t
  /\ task_at[t] = "endpoint"
  /\ \/ task_at' = [task_at EXCEPT ![t] = "reading"] /\ loop_owner' = 0
     \/ task_at' = [task_at EXCEPT ![t] = "transcribe"] /\ UNCHANGED loop_owner
  /\ UNCHANGED loopFrame

\* The worker thread has read the upload.
ReadDone(t) ==
  /\ task_at[t] = "reading"
  /\ task_at' = [task_at EXCEPT ![t] = "read_ready"]
  /\ UNCHANGED loop_owner
  /\ UNCHANGED loopFrame

\* transcribe_audio up to the initial model call (transcription.py:112-128,
\* 321-332): awaiting the coroutine _request_strict_variants runs it on the
\* spot, and model.generate_content is an ordinary call that returns when
\* the model has answered.
CallStrict(t) ==
  /\ loop_owner = t
  /\ task_at[t] = "transcribe"
  /\ task_at' = [task_at EXCEPT ![t] = "strict_call"]
  /\ UNCHANGED loop_owner
  /\ UNCHANGED loopFrame

\* The model answers the strict call: the session goes on to the first
\* light-edit call (apply_light_edit, line 88, again an ordinary call), or
\* raises (the call failed, or a field is judged truncated and line 161
\* raises) and the task ends.
StrictAnswered(t) ==
  /\ loop_owner = t
  /\ task_at[t] = "strict_call"
  /\ \/ task_at' = [task_at EXCEPT ![t] = "light_original_call"]
        /\ UNCHANGED loop_owner
     \/ task_at' = [task_at EXCEPT ![t] = "failed"] /\ loop_owner' = 0
  /\ UNCHANGED loopFrame

\* The model answers the first light-edit call (or the call fails, which
\* apply_light_edit absorbs): the second one is made (line 217), unless the
\* key is missing and the task ends.
LightOriginalAnswered(t) ==
  /\ loop_owner = t
  /\ task_at[t] = "light_original_call"
  /\ \/ task_at' = [task_at EXCEPT ![t] = "light_english_call"]
        /\ UNCHANGED loop_owner
     \/ task_at' = [task_at EXCEPT ![t] = "failed"] /\ loop_owner' = 0
  /\ UNCHANGED loopFrame

\* The model answers the second light-edit call and persist_session awaits
\* the backend's store (transcription.py:243-262, archive.py:265):
\* NullBackend.store returns at once, LocalFilesystemBackend.store awaits
\* asyncio.to_thread and VercelBlobBackend.store awaits its uploads.
LightEnglishAnswered(t) ==
  /\ loop_owner = t
  /\ task_at[t] = "light_english_call"
  /\ IF default_manager = "none"
     THEN task_at' = [task_at EXCEPT ![t] = "respond"] /\ UNCHANGED loop_owner
     ELSE task_at' = [task_at EXCEPT ![t] = "store_wait"] /\ loop_owner' = 0
  /\ UNCHANGED loopFrame

\* The backend's I/O is over (or has failed).
StoreDone(t) ==
  /\ task_at[t] = "store_wait"
  /\ task_at' = [task_at EXCEPT ![t] = "store_ready"]
  /\ UNCHANGED loop_owner
  /\ UNCHANGED loopFrame

\* The response is built and returned (transcription.py:264-275,
\* index.py:119-120): the task ends.
Return(t) ==
  /\ loop_owner = t
  /\ task_at[t] = "respond"
  /\ task_at' = [task_at EXCEPT ![t] = "done"]
  /\ loop_owner' = 0
  /\ UNCHANGED loopFrame

LoopNext ==
  \E t \in Tasks :
    \/ Accept(t)
    \/ Resume(t)
    \/ AwaitRead(t)
    \/ ReadDone(t)
    \/ CallStrict(t)
    \/ StrictAnswered(t)
    \/ LightOriginalAnswered(t)
    \/ LightEnglishAnswered(t)
    \/ StoreDone(t)
    \/ Return(t)

LoopSpec == LoopInit /\ [][LoopNext]_vars

(***************************************************************************)
(* The captured filename and the locations of the artifacts of one archive *)
(* as functions of the upload.                                             *)
(***************************************************************************)
MaxNameLen == 4

\* The components of PurePosixPath(filename), as [first, last] positions in
\* filename: the path is split at "/" and empty and "." components are
\* dropped (".." is kept).
Components(filename) ==
  {r \in (1..Len(filename)) \X (1..Len(filename)) :
     /\ r[1] <= r[2]
     /\ \A i \in r[1]..r[2] : filename[i] # "/"
     /\ (r[1] = 1 \/ filename[r[1] - 1] = "/")
     /\ (r[2] = Len(filename) \/ filename[r[2] + 1] = "/")
     /\ SubSeq(filename, r[1], r[2]) # <<".">>}

\* PurePosixPath(filename).name: the last component, "" when there is none.
PathName(filename) ==
  LET kept == Components(filename)
  IN  IF kept = {} THEN <<>>
      ELSE LET last == CHOOSE r \in kept : \A q \in kept : q[1] <= r[1]
           IN  SubSeq(filename, last[1], last[2])

DefaultName == <<"r", "e", "c", "o", "r", "d", "i", "n", "g", ".", "m", "4", "a">>

\* safe_name of transcribe_audio (transcription.py:113).  An upload without
\* a filename (None) and one with an empty filename are both <<>>.
SafeName(filename) ==
  IF filename = <<>> THEN DefaultName ELSE PathName(filename)

StrictJson == <<"s", "t", "r", "i", "c", "t", ".", "j", "s", "o", "n">>

LightJson == <<"l", "i", "g", "h", "t", ".", "j", "s", "o", "n">>

RawResponseTxt == <<"r", "a", "w", "_", "r", "e", "s", "p", "o", "n", "s", "e", ".", "t", "x", "t">>

PromptTxt == <<"p", "r", "o", "m", "p", "t", ".", "t", "x", "t">>

MetadataJson == <<"m", "e", "t", "a", "d", "a", "t", "a", ".", "j", "s", "o", "n">>

\* The artifacts every archive has besides the audio clip, in the order
\* backend.store writes them.
FixedArtifacts ==
  <<[artifact |-> "strict", name |-> StrictJson],
    [artifact |-> "light", name |-> LightJson],
    [artifact |-> "raw_response", name |-> RawResponseTxt],
    [artifact |-> "prompt", name |-> PromptTxt],
    [artifact |-> "metadata", name |-> MetadataJson]>>

\* uuid.uuid4().hex of the session (transcription.py:117).
SessionHex == <<"5", "e">>

\* The default prefix of VercelBlobBackend.
Prefix == <<"s", "e", "s", "s", "i", "o", "n", "s">>

\* str(session_path / name), relative to base_path (archive.py:80, 85): the
\* join drops an empty name.
LocalPath(session_id, name) ==
  IF name = <<>> THEN session_id ELSE session_id \o <<"/">> \o name

\* f"{base_key}/{name}" (archive.py:148, 152).
BlobKey(session_id, name) ==
  Prefix \o <<"/">> \o session_id \o <<"/">> \o name

\* The writes of backend.store in order, each with the path (local) or key
\* (Vercel Blob) written, given storage that accepts every write to a file.
\* Path.write_bytes on the session directory or its parent raises.
StoreWrites(backend, session_id, audio) ==
  LET at(name) == IF backend = "local" THEN LocalPath(session_id, name)
                  ELSE BlobKey(session_id, name)
      clip == IF audio.has_data
              THEN <<[artifact |-> "audio", at |-> at(audio.filename)]>>
              ELSE <<>>
      rest == [i \in 1..Len(FixedArtifacts) |->
                 [artifact |-> FixedArtifacts[i].artifact,
                  at |-> at(FixedArtifacts[i].name)]]
  IN  IF backend = "none" THEN [exc |-> "none", written |-> <<>>]
      ELSE IF /\ backend = "local"
              /\ audio.has_data
              /\ audio.filename \in {<<>>, <<".", ".">>}
      THEN [exc |-> "IsADirectoryError", written |-> <<>>]
      ELSE [exc |-> "none", written |-> clip \o rest]

\* Filenames of up to MaxNameLen characters over a letter, the dot and the
\* separator.
RECURSIVE NamesOfLength(_)
NamesOfLength(n) ==
  IF n = 0 THEN {<<>>}
  ELSE {Append(f, c) : f \in NamesOfLength(n - 1), c \in {"a", ".", "/"}}

\* Uploaded filenames: the short ones, an ordinary clip name, and the names
\* the archive gives its own artifacts, bare and behind a directory.
Filenames ==
  UNION {NamesOfLength(n) : n \in 0..MaxNameLen}
  \cup {<<"c", ".", "m", "4", "a">>}
  \cup {FixedArtifacts[i].name : i \in 1..Len(FixedArtifacts)}
  \cup {<<"a", "/">> \o FixedArtifacts[i].name : i \in 1..Len(FixedArtifacts)}

Uploads ==
  [filename : Filenames, has_data : BOOLEAN,
   backend : {"none", "local", "vercel_blob"}]

\* No session of the pipeline is running.
NoSession ==
  /\ stages = <<>>
  /\ sessions = 0
  /\ default_manager = "unset"
  /\ selections = <<>>
  /\ strict_variants = NonDict
  /\ raw_response_text = <<>>
  /\ continuation_raw_responses = <<>>
  /\ continuation_variants = NonDict
  /\ strict_before = NonDict
  /\ received = <<>>
  /\ retry_count = 0
  /\ needs_continuation = FALSE
  /\ truncation_detected = FALSE
  /\ original_light = Absent
  /\ english_light = Absent
  /\ raw_payload = NoPayload
  /\ archive_call = NoCall
  /\ archive_info = NoDescriptor
  /\ store_raised = NoException
  /\ result = NoResult
  /\ error = NoError
  /\ model_calls = <<>>
  /\ task_at = <<>>
  /\ loop_owner = 0

UploadInit ==
  /\ pc = "Upload"
  /\ arg \in Uploads
  /\ ret = NoReturn
  /\ NoSession

\* transcription.py:113: the filename is captured.
CaptureName ==
  /\ pc = "Upload"
  /\ pc' = "Named"
  /\ ret' = [exc |-> "none", safe_name |-> SafeName(arg.filename),
             written |-> <<>>]
  /\ UNCHANGED <<stages, sessions, default_manager, selections, sessionVars,
                 arg, task_at, loop_owner>>

\* backend.store with AudioPayload(filename=safe_name, ...)
\* (transcription.py:224-229, archive.py:69-120, 134-190).
StoreArtifacts ==
  /\ pc = "Named"
  /\ pc' = "Stored"
  /\ LET s == StoreWrites(arg.backend, SessionHex,
                          [filename |-> ret.safe_name,
                           has_data |-> arg.has_data])
     IN  ret' = [exc |-> s.exc, safe_name |-> ret.safe_name,
                 written |-> s.written]
  /\ UNCHANGED <<stages, sessions, default_manager, selections, sessionVars,
                 arg, task_at, loop_owner>>

UploadNext ==
  \/ CaptureName
  \/ StoreArtifacts

UploadSpec == UploadInit /\ [][UploadNext]_vars

(***************************************************************************)
(* analyze_custom_output (index.py:85-104) as a function of the text the   *)
(* model returned to a custom transform.                                   *)
(***************************************************************************)
\* The characters \w matches among those of the texts below.
WordChars == {"a", "b", "i", "t", "s", "_"} \cup Digits

IsWordChar(c) == c \in WordChars

\* len(re.findall(r"\b\w+\b", cleaned)): the maximal runs of word characters.
WordCount(cleaned) ==
  Cardinality({i \in 1..Len(cleaned) :
                 /\ IsWordChar(cleaned[i])
                 /\ (i = 1 \/ ~IsWordChar(cleaned[i - 1]))})

\* "\n\n" in cleaned or cleaned.count("\n") > 0
HasParagraphBreaks(cleaned) ==
  \/ \E i \in 1..Len(cleaned) - 1 : cleaned[i] = "\n" /\ cleaned[i + 1] = "\n"
  \/ Cardinality({i \in 1..Len(cleaned) : cleaned[i] = "\n"}) > 0

\* (?:[-*BULLET]|\d+\.)\s matches at position q.
MarkerAt(cleaned, q) ==
  LET ws(k) == k <= Len(cleaned) /\ cleaned[k] \in Whitespace
  IN  \/ cleaned[q] \in {"-", "*", "BULLET"} /\ ws(q + 1)
      \/ /\ cleaned[q] \in Digits
         /\ \E r \in q..Len(cleaned) - 2 :
              /\ \A k \in q..r : cleaned[k] \in Digits
              /\ cleaned[r + 1] = "."
              /\ ws(r + 2)

\* ^\s* (MULTILINE) matches up to position q: only whitespace lies between
\* the start of some line and q.
LineLead(cleaned, q) ==
  \E p \in 1..q :
    /\ p = 1 \/ cleaned[p - 1] = "\n"
    /\ \A k \in p..q - 1 : cleaned[k] \in Whitespace

\* re.search(r"^\s*(?:[-*BULLET]|\d+\.)\s+", cleaned, flags=re.MULTILINE)
HasListMarkers(cleaned) ==
  \E q \in 1..Len(cleaned) : MarkerAt(cleaned, q) /\ LineLead(cleaned, q)

WordLimitExceeded(word_count) == word_count > 120

AnalyzeCustomOutput(text) ==
  LET cleaned == Strip(text)
      word_count == WordCount(cleaned)
  IN  [wordCount |-> word_count,
       violations |->
         (IF WordLimitExceeded(word_count)
          THEN <<"word_limit_exceeded">> ELSE <<>>)
         \o (IF HasParagraphBreaks(cleaned)
             THEN <<"multiple_paragraphs_detected">> ELSE <<>>)
         \o (IF HasListMarkers(cleaned)
             THEN <<"list_formatting_detected">> ELSE <<>>)]

\* n times the word, with the separator between.
Repeated(n, word, sep) ==
  IF n = 0 THEN <<>>
  ELSE [i \in 1..(n * Len(word) + (n - 1) * Len(sep)) |->
          LET k == ((i - 1) % (Len(word) + Len(sep))) + 1
          IN  IF k <= Len(word) THEN word[k] ELSE sep[k - Len(word)]]

\* How many times a word is repeated: few, and around half and all of the
\* limit of the prompt.
Repetitions == {0, 1, 2, 59, 60, 61, 119, 120, 121}

\* One run of word characters, and two around an apostrophe.
OutputWords == {<<"a", "b">>, <<"i", "t", "'", "s">>}

OutputSeparators == {<<" ">>, <<",", " ">>, <<"\n">>, <<"\n", "\n">>}

OutputLeads ==
  {<<>>, <<" ">>, <<"-", " ">>, <<"-">>, <<"*", " ">>, <<"BULLET", " ">>,
   <<"1", ".", " ">>, <<"1", "2", ".", " ">>, <<"1", ".">>}

OutputTails == {<<>>, <<".">>, <<"\n">>, <<"\n", "-", " ", "a">>}

\* Texts the model can return to a custom transform.
OutputTexts ==
  {l \o Repeated(n, w, s) \o t :
     l \in OutputLeads, n \in Repetitions, w \in OutputWords,
     s \in OutputSeparators, t \in OutputTails}

AnalyzeInit ==
  /\ pc = "Analyze"
  /\ arg \in OutputTexts
  /\ ret = NoReturn
  /\ NoSession

\* transform_text for type "custom" (index.py:164-174): the text of the
\* response is stripped and analyzed.
CallAnalyze ==
  /\ pc = "Analyze"
  /\ pc' = "Analyzed"
  /\ LET diagnostics == AnalyzeCustomOutput(Strip(arg))
     IN  ret' = [exc |-> "none", text |-> Strip(arg),
                 violations |-> diagnostics.violations,
                 wordCount |-> diagnostics.wordCount]
  /\ UNCHANGED <<stages, sessions, default_manager, selections, sessionVars,
                 arg, task_at, loop_owner>>

AnalyzeNext == CallAnalyze

AnalyzeSpec == AnalyzeInit /\ [][AnalyzeNext]_vars

(***************************************************************************)
(* Properties                                                              *)
(***************************************************************************)
IsPrefix(p, t) == Len(p) <= Len(t) /\ SubSeq(t, 1, Len(p)) = p

\* The session raised to its caller while the given step was running.
FailedDuring(step) ==
  /\ pc = "Failed"
  /\ Len(stages) >= 2
  /\ stages[Len(stages) - 1] = step

\* The continuation loop of the session is over.
LoopDone ==
  \/ LoopExited
  \/ pc \in {"LightOriginal", "LightEdited", "Archived", "Complete"}
  \/ FailedDuring("LightEdited")
  \/ FailedDuring("Archived")

\* A continuation mapping was merged into the strict variants and the merge
\* loop ran to its end.
MergeCompleted ==
  /\ continuation_variants.kind = "dict"
  /\ error = NoError

\* The text a field holds as the merge reads it: strict_variants.get(field, "").
TextOf(d, field) == GetOrEmpty(d, field).s

HoldsText(d, field) == d[field].t \in {"str", "absent"}

\* The continuation carries nothing to append for the field.
EmptyAddition(v) ==
  \/ v.t \in {"absent", "null"}
  \/ v.t = "str" /\ \A i \in 1..Len(v.s) : v.s[i] \in Whitespace

FieldSet == {Fields[i] : i \in 1..Len(Fields)}

\* At least one strict field is judged truncated by the heuristic.
StillTruncated ==
  \E f \in FieldSet :
    strict_variants[f].t = "str" /\ IsTruncated(strict_variants[f].s)

\* C1: the number of continuation requests issued by a session, and the
\* continuationAttempts it hands to the archive, never exceed
\* MAX_CONTINUATION_ATTEMPTS.
C1_ContinuationBounded ==
  /\ retry_count <= MAX_CONTINUATION_ATTEMPTS
  /\ Len(received) <= MAX_CONTINUATION_ATTEMPTS
  /\ archive_call.continuationAttempts <= MAX_CONTINUATION_ATTEMPTS

\* A round was begun and the strict fields are still judged truncated.
C1_Witness ==
  /\ retry_count = MAX_CONTINUATION_ATTEMPTS
  /\ needs_continuation
  /\ StillTruncated

\* C2: no outcome of a continuation model call makes transcribe_audio raise:
\* the session never fails while a continuation round is running.
C2_ContinuationNeverFatal == ~FailedDuring("Continuation")

\* C3: no failure of the archive step makes transcribe_audio raise: the
\* session never fails while the archive step is running.
C3_ArchiveNeverFatal == ~FailedDuring("Archived")

C5_LightEditNeverFails ==
  /\ error.origin # "apply_light_edit"
  /\ ~FailedDuring("LightEdited")

\* Consecutive steps of a session follow Received, StrictTranscribed,
\* Continuation*, LightEdited, Archived, Complete.
Follows(a, b) ==
  \/ a = "Received" /\ b = "StrictTranscribed"
  \/ a = "StrictTranscribed" /\ b \in {"Continuation", "LightEdited"}
  \/ a = "Continuation" /\ b \in {"Continuation", "LightEdited"}
  \/ a = "LightEdited" /\ b = "Archived"
  \/ a = "Archived" /\ b = "Complete"

\* C6: the steps of a session are taken in the order Received,
\* StrictTranscribed, Continuation*, LightEdited, Archived, Complete, and
\* Failed is entered only from Received or StrictTranscribed.
C6_StageOrder ==
  /\ stages # <<>> => stages[1] = "Received"
  /\ \A i \in 1..(Len(stages) - 1) :
       \/ Follows(stages[i], stages[i + 1])
       \/ /\ stages[i + 1] = "Failed"
          /\ stages[i] \in {"Received", "StrictTranscribed"}

\* C7: once the loop is over, truncatedAfterRetries is true exactly when a
\* strict field is still judged truncated, and a session whose strict fields
\* are still judged truncated goes on to Complete: it does not end in Failed.
C7_StillTruncatedCompletes ==
  /\ LoopDone => (needs_continuation <=> StillTruncated)
  /\ ~(pc = "Failed" /\ needs_continuation /\ StillTruncated)

RECURSIVE Segments(_, _)
\* The marker-separated texts of the responses in rs that satisfy keep.
Segments(rs, keepUnparsed) ==
  IF rs = <<>> THEN <<>>
  ELSE (IF rs[1].parsed \/ keepUnparsed
        THEN ContinuationMarker \o Strip(rs[1].text) ELSE <<>>)
       \o Segments(Tail(rs), keepUnparsed)

InitialCallFailed ==
  /\ model_calls # <<>>
  /\ \/ model_calls[1].outcome # "text"
     \/ model_calls[1].json \in {"malformed", "control_char_unrecoverable"}

\* C12: when the initial strict call fails, transcribe_audio raises to its
\* caller, and the session makes no continuation request, no light-edit call
\* and no archive call.
C12_InitialFailureIsFatal ==
  InitialCallFailed =>
    /\ pc = "Failed"
    /\ error.type # "none"
    /\ stages = <<"Received", "StrictTranscribed", "Failed">>
    /\ Len(model_calls) = 1
    /\ received = <<>>
    /\ original_light = Absent
    /\ english_light = Absent
    /\ ~archive_call.called
    /\ ~result.returned

\* The initial text was not valid JSON and the caller got a ValueError; in
\* another session the client raised and the caller got its exception.
C12_Witness ==
  /\ InitialCallFailed
  /\ pc = "Failed"
  /\ \/ error.cause = "JSONDecodeError" /\ error.type = "ValueError"
     \/ error.cause = "TransportError" /\ error.type = "TransportError"

\* The extraction of the text in arg ended in an exception.
ExtractionFailed == pc = "Extracted" /\ ret.exc # "none"

\* C13 as claimed: whenever the text is not parseable, what the extractor
\* raises is not the parser's exception but a typed error that carries the
\* message, the bounded excerpt and the session id.
C13_TypedErrorWithContext ==
  ExtractionFailed =>
    /\ ret.exc # "JSONDecodeError"
    /\ {"msg", "snippet", "session_id"} \subseteq DOMAIN ret.attached

\* C13 as amended: whenever the text is not parseable, the extractor logs
\* the session id, the parser's message and an escaped excerpt of at most 800
\* characters of the text, and raises the parser's own JSONDecodeError, which
\* carries the parser's message, the whole text and the position only.
C13_ParserErrorLoggedAndReraised ==
  ExtractionFailed =>
    /\ ret.exc = "JSONDecodeError"
    /\ DOMAIN ret.attached = {"msg", "doc", "pos"}
    /\ ret.attached.msg # ""
    /\ ret.logged.session_id = arg.session_id
    /\ ret.logged.error = ret.attached.msg
    /\ \E n \in 0..800 :
         /\ n <= Len(ret.attached.doc)
         /\ n = 800 \/ n = Len(ret.attached.doc)
         /\ ret.logged.snippet = UnicodeEscape(SubSeq(ret.attached.doc, 1, n))

\* A text longer than the excerpt failed to parse; for another the loose
\* parse was tried and failed too.
C13_Witness ==
  /\ ExtractionFailed
  /\ \/ Len(ret.attached.doc) > 800
     \/ ret.attached.msg = "Invalid control character at"

\* C14: for every mapping with string values, extracting from the
\* serialization of the mapping wrapped in a fence tagged json gives a mapping
\* equal to it.
C14_ExtractRoundTrips ==
  (pc = "Extracted" /\ arg.source # NoSource) =>
    /\ ret.exc = "none"
    /\ ret.variants = arg.source

\* The text in arg has a character that is not whitespace.
HasLastCharacter == \E i \in 1..Len(arg) : arg[i] \notin {" ", "\n", "\t"}

\* Its last character that is not whitespace.
LastCharacter ==
  arg[CHOOSE i \in 1..Len(arg) :
        /\ arg[i] \notin {" ", "\n", "\t"}
        /\ \A j \in (i + 1)..Len(arg) : arg[j] \in {" ", "\n", "\t"}]

\* The length of the text without its surrounding whitespace.
StrippedLength ==
  IF ~HasLastCharacter THEN 0
  ELSE Cardinality({i \in 1..Len(arg) :
         /\ \E j \in 1..i : arg[j] \notin {" ", "\n", "\t"}
         /\ \E j \in i..Len(arg) : arg[j] \notin {" ", "\n", "\t"}})

NineTerminals ==
  {".", "!", "?", "\"", "'", ")", "ELLIPSIS", "RDQUOTE", "RSQUOTE"}

\* C15 as claimed: a text of length >= 200 as passed in, surrounding
\* whitespace included, whose last non-whitespace character is not a terminal
\* character is judged truncated.
C15_TruncatedByPassedLength ==
  (pc = "Judged" /\ Len(arg) >= 200 /\ HasLastCharacter
     /\ LastCharacter \notin NineTerminals) => ret.val

\* C15 as amended: a text whose length without its surrounding whitespace is
\* >= 200 and whose last non-whitespace character is not a terminal
\* character is judged truncated.
C15_TruncatedByStrippedLength ==
  (pc = "Judged" /\ StrippedLength >= 200 /\ HasLastCharacter
     /\ LastCharacter \notin NineTerminals) => ret.val

\* A text of exactly 200 characters between surrounding whitespace was
\* judged truncated.
C15_Witness ==
  /\ pc = "Judged"
  /\ StrippedLength = 200
  /\ Len(arg) > 200
  /\ LastCharacter \notin NineTerminals
  /\ ret.val

\* C16: a text of length < 200, empty and whitespace-only texts included, is
\* not judged truncated, whatever its last character.
C16_ShortNeverTruncated ==
  (pc = "Judged" /\ Len(arg) < 200) => ~ret.val

\* A text of 199 characters with no terminal punctuation was judged.
C16_Witness ==
  /\ pc = "Judged"
  /\ Len(arg) = 199
  /\ StrippedLength = 199
  /\ LastCharacter \notin NineTerminals
  /\ ~ret.val

\* C17: a text of length >= 200 whose last non-whitespace character is one of
\* the nine terminal characters is not judged truncated.
C17_TerminalNeverTruncated ==
  (pc = "Judged" /\ Len(arg) >= 200 /\ HasLastCharacter
     /\ LastCharacter \in NineTerminals) => ~ret.val

\* A long text that ends in a right curly quote followed by whitespace was
\* judged.
C17_Witness ==
  /\ pc = "Judged"
  /\ StrippedLength >= 200
  /\ LastCharacter = "RSQUOTE"
  /\ arg[Len(arg)] \in {" ", "\n", "\t"}
  /\ ~ret.val

\* The initial strict call succeeded and neither strict field was judged
\* truncated.
NotTruncatedSession ==
  /\ Len(stages) >= 2
  /\ stages[2] = "StrictTranscribed"
  /\ Len(stages) >= 3 => stages[3] # "Failed"
  /\ ~truncation_detected

\* What the light-edit call i of the session gave for the strict text v: its
\* output, or v itself if the call failed.
LightOutput(i, v) ==
  IF model_calls[i].outcome = "text"
  THEN Str(StripLightFence(Strip(model_calls[i].text)))
  ELSE v

\* C18: when neither strict field of the initial response is judged
\* truncated, no continuation call is made, and the session ends with one
\* strict call, two light-edit calls and a response that carries the four
\* variants, each light field being the output of its light-edit call (the
\* strict text if that call failed).
C18_NoTruncationNoContinuation ==
  NotTruncatedSession =>
    /\ retry_count = 0
    /\ received = <<>>
    /\ \A i \in 1..Len(model_calls) : model_calls[i].kind # "continuation"
    /\ pc \in {"Complete", "Failed"} =>
         /\ pc = "Complete"
         /\ Len(model_calls) = 3
         /\ model_calls[1].kind = "strict"
         /\ model_calls[2].kind = "light"
         /\ model_calls[3].kind = "light"
         /\ result.returned
         /\ result.originalStrict = strict_variants.originalStrict
         /\ result.englishStrict = strict_variants.englishStrict
         /\ result.originalStrict.t = "str"
         /\ result.englishStrict.t = "str"
         /\ result.originalLight = LightOutput(2, result.originalStrict)
         /\ result.englishLight = LightOutput(3, result.englishStrict)

\* A light-edit call of the session has begun.
LightEditBegun ==
  \E i \in 1..Len(model_calls) : model_calls[i].kind = "light"

\* C19: whenever a light-edit call begins, the strict variants hold both
\* keys, each with a string value.
C19_BothKeysBeforeLightEdit ==
  LightEditBegun =>
    /\ strict_variants.kind = "dict"
    /\ \A f \in FieldSet : strict_variants[f].t = "str"

\* C20: a task that is waiting for the model or for the archive backend has
\* yielded the event loop, so that another request's task can be resumed
\* (Resume needs the loop to be free).
C20_YieldsAtExternalCalls ==
  \A t \in Tasks : InExternalCall(t) => loop_owner # t

(***************************************************************************)
(* C21: the archive backend is selected from the configuration at most     *)
(* once in the life of the process: ArchiveManager.from_env is called at   *)
(* most once however many sessions call get_archive_manager, also after a  *)
(* call of it that raised.                                                 *)
(***************************************************************************)
C21_SelectsBackendOnce == Len(selections) <= 1

(***************************************************************************)
(* C22: for every uploaded filename the captured filename is a single base *)
(* name: it is not empty, holds no path separator and is neither "." nor   *)
(* "..", so that the audio artifact lies directly inside the session's     *)
(* directory or key prefix.                                                *)
(***************************************************************************)
C22_CapturedNameIsBaseName ==
  pc \in {"Named", "Stored"} =>
    /\ ret.safe_name # <<>>
    /\ \A i \in 1..Len(ret.safe_name) : ret.safe_name[i] # "/"
    /\ ret.safe_name \notin {<<".">>, <<".", ".">>}

(***************************************************************************)
(* C23: for a custom transform the returned violations hold                *)
(* word_limit_exceeded exactly when the output breaks the word limit of    *)
(* the wrapper, fewer than 120 words, whatever the word count.             *)
(***************************************************************************)
C23_WordLimitFlaggedWhenBroken ==
  pc = "Analyzed" =>
    ((\E i \in 1..Len(ret.violations) : ret.violations[i] = "word_limit_exceeded")
       <=> ~(ret.wordCount < 120))

(***************************************************************************)
(* C24: the extractor retries in lenient mode only when the strict parse   *)
(* failed because of a raw control character inside a string; after any   *)
(* other failure of the strict parse no lenient parse is attempted; and    *)
(* when the lenient parse fails too, the error raised is the one of the    *)
(* strict parse.                                                           *)
(***************************************************************************)
C24_LenientOnlyAfterControlCharacter ==
  pc = "Extracted" =>
    LET first == JsonLoads(StripCodeFence(arg.text), TRUE)
    IN  /\ (ret.lenient # "not_tried")
             <=> (~first.ok /\ first.msg = "Invalid control character at")
        /\ ret.lenient = "failed" =>
             /\ ret.exc = "JSONDecodeError"
             /\ ret.attached.msg = first.msg
             /\ ret.attached.pos = first.pos

\* The strict parse stopped at a raw line break inside a string and the
\* lenient parse failed further on, at another error: the error raised is
\* the strict parse's.
C24_Witness ==
  /\ pc = "Extracted"
  /\ ret.lenient = "failed"
  /\ ret.attached.msg = "Invalid control character at"
  /\ LET second == JsonLoads(StripCodeFence(arg.text), FALSE)
     IN  ~second.ok /\ second.pos > ret.attached.pos

(***************************************************************************)
(* C25: in the metadata handed to the archive: truncatedAfterRetries       *)
(* implies truncationDetected, continuationAttempts > 0 implies            *)
(* truncationDetected, and truncationDetected implies                      *)
(* continuationAttempts >= 1; the three are the attempt counter and the    *)
(* two flags of the session, which stand in the same relations once the    *)
(* continuation loop is over.                                              *)
(***************************************************************************)
C25_ArchivedTruncationFlagsConsistent ==
  /\ archive_call.called =>
       /\ archive_call.truncatedAfterRetries => archive_call.truncationDetected
       /\ archive_call.continuationAttempts > 0 => archive_call.truncationDetected
       /\ archive_call.truncationDetected => archive_call.continuationAttempts >= 1
       /\ archive_call.continuationAttempts = retry_count
       /\ archive_call.truncationDetected = truncation_detected
       /\ archive_call.truncatedAfterRetries = needs_continuation
  /\ (LoopDone \/ FailedDuring("Continuation")) =>
       /\ needs_continuation => truncation_detected
       /\ retry_count > 0 => truncation_detected
       /\ truncation_detected => retry_count >= 1

\* A session completed after handing its metadata to the archive.
C25_Witness ==
  /\ pc = "Complete"
  /\ archive_call.called
  /\ archive_call.continuationAttempts = 0
  /\ ~archive_call.truncationDetected
  /\ ~archive_call.truncatedAfterRetries

(***************************************************************************)
(* C26: in every archive written, by the local or the remote backend, the  *)
(* artifacts lie at pairwise distinct locations: for every uploaded        *)
(* filename the audio artifact shares its path or key with none of         *)
(* strict.json, light.json, raw_response.txt, prompt.txt, metadata.json.   *)
(***************************************************************************)
C26_ArtifactLocationsDistinct ==
  pc = "Stored" =>
    \A i, j \in 1..Len(ret.written) :
      i # j => ret.written[i].at # ret.written[j].at

(***************************************************************************)
(* C27: for every completed session the archive was called exactly once,   *)
(* and the strict and light variants handed to it are the four values of   *)
(* the response: the strict values as they left the continuation loop and  *)
(* the light values as the two light-edit calls gave them.                 *)
(***************************************************************************)
C27_ArchivedVariantsAreReturned ==
  pc = "Complete" =>
    /\ archive_call.calls = 1
    /\ result.returned
    /\ result.originalStrict = archive_call.strict_variants.originalStrict
    /\ result.englishStrict = archive_call.strict_variants.englishStrict
    /\ result.originalLight = archive_call.originalLight
    /\ result.englishLight = archive_call.englishLight
    /\ archive_call.strict_variants = strict_variants
    /\ archive_call.originalLight =
         LightOutput(Len(model_calls) - 1, result.originalStrict)
    /\ archive_call.englishLight =
         LightOutput(Len(model_calls), result.englishStrict)

\* A completed session whose light-edit calls changed both texts.
C27_Witness ==
  /\ pc = "Complete"
  /\ archive_call.calls = 1
  /\ result.originalLight # result.originalStrict
  /\ result.englishLight # result.englishStrict

====
